---- MODULE Spec2Model ----
(***************************************************************************)
(* rrt_algorithms/search_space/search_space.py                             *)
(*                                                                         *)
(* SearchSpace  : a box of per-dimension ranges with rejection sampling.   *)
(* ObstacleRtree: axis-aligned obstacle boxes held in an R-tree, with a    *)
(*                point query and a discretised segment query.             *)
(*                                                                         *)
(* Real coordinates are modelled exactly on a grid: an input coordinate is *)
(* an integer of Coords, a computed point is a vector of numerators over a *)
(* common denominator, so that interpolated points are not rounded.        *)
(***************************************************************************)
EXTENDS Integers, Sequences, FiniteSets

\* ------------------------------------------------------------- bounds
MaxCoord == 2       \* input coordinates range over 0..MaxCoord
MaxDim == 2         \* dimensions range over 1..MaxDim
MaxObstacles == 1   \* an obstacle list holds at most this many obstacles
MaxRes == 3         \* resolutions range over 1..MaxRes

Coords == 0..MaxCoord
Dims == 1..MaxDim
Resolutions == 1..MaxRes

Tuples(n) == [1..n -> Coords]

\* ------------------------------------------------------------- points
\* The point c[1]/d, ..., c[n]/d.
Pt(c, d) == [c |-> c, d |-> d]
GridPt(t) == Pt(t, 1)
SamePoint(p, q) ==
    /\ Len(p.c) = Len(q.c)
    /\ \A i \in 1..Len(p.c) : p.c[i] * q.d = q.c[i] * p.d

\* ------------------------------------------------------------- state
VARIABLES
    tree,          \* the ObstacleRtree object, or the failure of its constructor
    space,         \* the SearchSpace object, or the failure of its constructor
    tree_in,       \* the arguments the ObstacleRtree constructor was called with
    space_in,      \* the ranges the SearchSpace constructor was called with
    seg,           \* the edge (start, end) the planner validates
    pc,            \* position inside sample_free: "idle", "draw" or "test"
    x,             \* sample_free's local x
    earlier_free,  \* some point drawn earlier in this sample_free call was free
    ret            \* the last value returned to the planner

vars == <<tree, space, tree_in, space_in, seg, pc, x, earlier_free, ret>>

NoObject == [status |-> "none"]
NoPoint == Pt(<<>>, 0)
NoRet == [op |-> "none"]
NoSegment == [start |-> <<>>, end |-> <<>>]

\* ------------------------------------------------------------- ObstacleRtree
DimensionMsg == "Obstacle has incorrect dimension definition"
OrderingMsg == "Obstacle start must be less than obstacle end"

Raised(msg) == [status |-> "error", err |-> msg]

\* The constructor's obstacles argument: None, or a list of coordinate tuples.
None == [given |-> FALSE, list |-> <<>>]
Some(list) == [given |-> TRUE, list |-> list]

\* The obstacles a caller passes: boxes of one side length on every axis, and
\* what becomes of such a box when its first or last axis is written high
\* before low, when its first axis is given no extent, when its last
\* coordinate is left out.
Box(low, side) == low \o [i \in 1..Len(low) |-> low[i] + side]
Cubes(d) ==
    {Box(low, side) : low \in Tuples(d), side \in 1..MaxCoord} \cap Tuples(2 * d)
SwapAxis(o, i) ==
    [k \in 1..Len(o) |->
        IF k = i THEN o[i + (Len(o) \div 2)]
        ELSE IF k = i + (Len(o) \div 2) THEN o[i]
        ELSE o[k]]
FlatFirst(o) == [o EXCEPT ![1 + (Len(o) \div 2)] = o[1]]
DropLast(o) == SubSeq(o, 1, Len(o) - 1)
AllCubes == UNION {Cubes(d) : d \in Dims}
ObstacleTuples ==
    AllCubes
    \cup {SwapAxis(o, 1) : o \in AllCubes}
    \cup {SwapAxis(o, Len(o) \div 2) : o \in AllCubes}
    \cup {FlatFirst(o) : o \in AllCubes}
    \cup {DropLast(o) : o \in AllCubes}
ListsOf(S) == UNION {[1..k -> S] : k \in 0..MaxObstacles}
ObstacleArgs == {None} \cup {Some(l) : l \in ListsOf(ObstacleTuples)}

\* The stream of index entries for an obstacle list: one rectangle per obstacle,
\* bounded by the obstacle's own coordinates.
obstacle_generator(obstacles) ==
    [i \in 1..Len(obstacles) |-> [box |-> obstacles[i], obj |-> obstacles[i]]]

\* len(o) / 2 != dim is a float comparison: it holds exactly when len(o) is not
\* twice dim, odd lengths included.
BadDimension(o, dim) == Len(o) # 2 * dim

\* o[i] >= o[int(i + len(o) / 2)] for some i in range(int(len(o) / 2)).
BadOrdering(o) ==
    \E i \in 0..((Len(o) \div 2) - 1) : o[i + 1] >= o[i + (Len(o) \div 2) + 1]

ObstacleRtree_init_swapped(dim, obstacles) ==
    IF ~obstacles.given
    THEN [status |-> "ok", dim |-> dim, obs |-> <<>>]
    ELSE IF \E k \in 1..Len(obstacles.list) : BadOrdering(obstacles.list[k])
    THEN Raised(OrderingMsg)
    ELSE IF \E k \in 1..Len(obstacles.list) : BadDimension(obstacles.list[k], dim)
    THEN Raised(DimensionMsg)
    ELSE [status |-> "ok", dim |-> dim, obs |-> obstacle_generator(obstacles.list)]

ObstacleRtree_init(dim, obstacles) ==
    IF ~obstacles.given
    THEN [status |-> "ok", dim |-> dim, obs |-> <<>>]
    ELSE IF \E k \in 1..Len(obstacles.list) : BadDimension(obstacles.list[k], dim)
    THEN Raised(DimensionMsg)
    ELSE IF \E k \in 1..Len(obstacles.list) : BadOrdering(obstacles.list[k])
    THEN Raised(OrderingMsg)
    ELSE [status |-> "ok", dim |-> dim, obs |-> obstacle_generator(obstacles.list)]

\* A rectangle of the index (interleaved: the minima, then the maxima) meets
\* the degenerate rectangle of a point when the point lies in it, border
\* included.
Intersects_strict(box, p) ==
    \A i \in 1..Len(p.c) :
        box[i] * p.d < p.c[i] /\ p.c[i] < box[i + Len(p.c)] * p.d

Intersects(box, p) ==
    \A i \in 1..Len(p.c) :
        box[i] * p.d <= p.c[i] /\ p.c[i] <= box[i + Len(p.c)] * p.d

\* index.Index.count: how many indexed rectangles meet the query.
Count(obs, p) == Cardinality({k \in 1..Len(obs) : Intersects(obs[k].box, p)})

obstacle_free(obs, p) == Count(obs, p) = 0

\* ------------------------------------------------------------- segments
Sq(n) == n * n
DistSq(a, b) ==
    LET RECURSIVE Sum(_)
        Sum(i) == IF i = 0 THEN 0 ELSE Sq(b[i] - a[i]) + Sum(i - 1)
    IN Sum(Len(a))

\* The fewest equal intervals of length at most r that cover the segment:
\* the least n with n * r >= |end - start|.
Intervals(start, end, r) ==
    CHOOSE n \in 0..(MaxCoord * MaxDim) :
        /\ Sq(n * r) >= DistSq(start, end)
        /\ \A m \in 0..(n - 1) : Sq(m * r) < DistSq(start, end)

\* Equally spaced points from start to end, both included, consecutive points
\* at most r apart.
es_points_along_line(start, end, r) ==
    LET n == Intervals(start, end, r)
    IN IF n = 0
       THEN <<GridPt(start)>>
       ELSE [i \in 1..(n + 1) |->
                Pt([k \in 1..Len(start) |->
                       start[k] * n + (end[k] - start[k]) * (i - 1)], n)]

\* all(iterable)
RECURSIVE all(_)
all(bs) == IF bs = <<>> THEN TRUE ELSE IF ~Head(bs) THEN FALSE ELSE all(Tail(bs))

RECURSIVE any(_)
any(bs) == IF bs = <<>> THEN FALSE ELSE IF Head(bs) THEN TRUE ELSE any(Tail(bs))

map_obstacle_free(obs, points) ==
    [i \in 1..Len(points) |-> obstacle_free(obs, points[i])]

collision_free_any(obs, start, end, r) ==
    any(map_obstacle_free(obs, es_points_along_line(start, end, r)))

collision_free_inverted(obs, start, end, r) ==
    ~all(map_obstacle_free(obs, es_points_along_line(start, end, r)))

collision_free_interior(obs, start, end, r) ==
    LET points == es_points_along_line(start, end, r)
    IN all(map_obstacle_free(obs, SubSeq(points, 2, Len(points) - 1)))

collision_free(obs, start, end, r) ==
    all(map_obstacle_free(obs, es_points_along_line(start, end, r)))

\* ------------------------------------------------------------- SearchSpace
TooFewMsg == "Must have at least 2 dimensions"
MalformedMsg == "Dimensions can only have a start and end"
DegenerateMsg == "Dimension start must be less than dimension end"

\* A range as the caller writes it: (low, high), or a malformed one.
Ranges == Tuples(2) \cup {<<a>> : a \in Coords} \cup {<<a, a, a>> : a \in Coords}
DimensionLengths == UNION {[1..k -> Ranges] : k \in 0..MaxDim}

SearchSpace_init_nonstrict(dimension_lengths, obstacle_free_ref, collision_free_ref) ==
    IF Len(dimension_lengths) < 2
    THEN Raised(TooFewMsg)
    ELSE IF \E i \in 1..Len(dimension_lengths) : Len(dimension_lengths[i]) # 2
    THEN Raised(MalformedMsg)
    ELSE IF \E i \in 1..Len(dimension_lengths) :
                dimension_lengths[i][1] > dimension_lengths[i][2]
    THEN Raised(DegenerateMsg)
    ELSE [status |-> "ok",
          dimensions |-> Len(dimension_lengths),
          dimension_lengths |-> dimension_lengths,
          obstacle_free |-> obstacle_free_ref,
          collision_free |-> collision_free_ref]

SearchSpace_init(dimension_lengths, obstacle_free_ref, collision_free_ref) ==
    IF Len(dimension_lengths) < 2
    THEN Raised(TooFewMsg)
    ELSE IF \E i \in 1..Len(dimension_lengths) : Len(dimension_lengths[i]) # 2
    THEN Raised(MalformedMsg)
    ELSE IF \E i \in 1..Len(dimension_lengths) :
                dimension_lengths[i][1] >= dimension_lengths[i][2]
    THEN Raised(DegenerateMsg)
    ELSE [status |-> "ok",
          dimensions |-> Len(dimension_lengths),
          dimension_lengths |-> dimension_lengths,
          obstacle_free |-> obstacle_free_ref,
          collision_free |-> collision_free_ref]

\* The values np.random.uniform(low, high) can return, one per axis: low
\* included, and high included too (NumPy documents that rounding can return
\* it).
sample_from_zero(dimension_lengths) ==
    {GridPt(t) : t \in {u \in Tuples(Len(dimension_lengths)) :
        \A i \in 1..Len(dimension_lengths) : u[i] <= dimension_lengths[i][2]}}

sample(dimension_lengths) ==
    {GridPt(t) : t \in {u \in Tuples(Len(dimension_lengths)) :
        \A i \in 1..Len(dimension_lengths) :
            dimension_lengths[i][1] <= u[i] /\ u[i] <= dimension_lengths[i][2]}}

\* ------------------------------------------------------------- actions
Returned(op, args, val) == [op |-> op, args |-> args, val |-> val]
Origin(d) == [i \in 1..d |-> 0]

\* tree = ObstacleRtree(dim, obstacles)
ConstructIndex ==
    /\ tree.status = "none"
    /\ \E dim \in Dims, obstacles \in ObstacleArgs :
        /\ tree' = ObstacleRtree_init(dim, obstacles)
        /\ tree_in' = [dim |-> dim, obstacles |-> obstacles]
    /\ UNCHANGED <<space, space_in, seg, pc, x, earlier_free, ret>>

\* X = SearchSpace(dimension_lengths, tree.obstacle_free, tree.collision_free)
ConstructSpace ==
    /\ space.status = "none"
    /\ \E dimension_lengths \in DimensionLengths :
        /\ space' = SearchSpace_init(dimension_lengths,
                                     "tree.obstacle_free", "tree.collision_free")
        /\ space_in' = dimension_lengths
    /\ UNCHANGED <<tree, tree_in, seg, pc, x, earlier_free, ret>>

\* The planner picks the edge it validates: from the origin to a grid point.
Plan ==
    /\ tree.status = "ok"
    /\ seg = NoSegment
    /\ \E end \in Tuples(tree.dim) : seg' = [start |-> Origin(tree.dim), end |-> end]
    /\ UNCHANGED <<tree, space, tree_in, space_in, pc, x, earlier_free, ret>>

\* tree.obstacle_free(p) for an end point of the planner's edge
ObstacleFreeCall_forgetful ==
    /\ tree.status = "ok"
    /\ pc = "idle"
    /\ seg # NoSegment
    /\ \E t \in {seg.start, seg.end} :
        ret' = Returned("obstacle_free", <<GridPt(t)>>, obstacle_free(tree.obs, GridPt(t)))
    /\ tree' = [tree EXCEPT !.obs = <<>>]
    /\ UNCHANGED <<space, tree_in, space_in, seg, pc, x, earlier_free>>

ObstacleFreeCall ==
    /\ tree.status = "ok"
    /\ pc = "idle"
    /\ seg # NoSegment
    /\ \E t \in {seg.start, seg.end} :
        ret' = Returned("obstacle_free", <<GridPt(t)>>, obstacle_free(tree.obs, GridPt(t)))
    /\ UNCHANGED <<tree, space, tree_in, space_in, seg, pc, x, earlier_free>>

\* tree.collision_free(start, end, r) for the planner's edge
CollisionFreeCall ==
    /\ tree.status = "ok"
    /\ pc = "idle"
    /\ seg # NoSegment
    /\ \E r \in Resolutions :
        ret' = Returned("collision_free", <<seg.start, seg.end, r>>,
                        collision_free(tree.obs, seg.start, seg.end, r))
    /\ UNCHANGED <<tree, space, tree_in, space_in, seg, pc, x, earlier_free>>

\* X.sample()
SampleCall ==
    /\ space.status = "ok"
    /\ pc = "idle"
    /\ \E p \in sample(space.dimension_lengths) :
        ret' = Returned("sample", <<>>, p)
    /\ UNCHANGED <<tree, space, tree_in, space_in, seg, pc, x, earlier_free>>

\* X.sample_free() is entered: nothing has been returned yet.
SampleFreeCall ==
    /\ space.status = "ok"
    /\ tree.status = "ok"
    /\ pc = "idle"
    /\ space.dimensions = tree.dim
    /\ pc' = "draw"
    /\ x' = NoPoint
    /\ earlier_free' = FALSE
    /\ ret' = NoRet
    /\ UNCHANGED <<tree, space, tree_in, space_in, seg>>

\* x = self.sample(), p being the point drawn
SampleFreeDraw(p) ==
    /\ pc = "draw"
    /\ x' = p
    /\ pc' = "test"
    /\ UNCHANGED <<tree, space, tree_in, space_in, seg, earlier_free, ret>>

\* if self.obstacle_free(x): return x   -- otherwise the loop goes round
SampleFreeTest_inverted ==
    /\ pc = "test"
    /\ IF ~obstacle_free(tree.obs, x)
       THEN /\ ret' = Returned("sample_free", <<>>, x)
            /\ pc' = "idle"
            /\ x' = NoPoint
            /\ earlier_free' = FALSE
       ELSE /\ pc' = "draw"
            /\ earlier_free' = (earlier_free \/ obstacle_free(tree.obs, x))
            /\ UNCHANGED <<x, ret>>
    /\ UNCHANGED <<tree, space, tree_in, space_in, seg>>

SampleFreeTest_one_try ==
    /\ pc = "test"
    /\ ret' = Returned("sample_free", <<>>, x)
    /\ pc' = "idle"
    /\ x' = NoPoint
    /\ earlier_free' = FALSE
    /\ UNCHANGED <<tree, space, tree_in, space_in, seg>>

SampleFreeTest ==
    /\ pc = "test"
    /\ IF obstacle_free(tree.obs, x)
       THEN /\ ret' = Returned("sample_free", <<>>, x)
            /\ pc' = "idle"
            /\ x' = NoPoint
            /\ earlier_free' = FALSE
       ELSE /\ pc' = "draw"
            /\ earlier_free' = (earlier_free \/ obstacle_free(tree.obs, x))
            /\ UNCHANGED <<x, ret>>
    /\ UNCHANGED <<tree, space, tree_in, space_in, seg>>

\* x = self.sample() for whichever point the generator yields
SampleFreeDrawAny ==
    /\ pc = "draw"
    /\ \E p \in sample(space.dimension_lengths) : SampleFreeDraw(p)

\* x = self.sample() yields a point that is free of obstacles
SampleFreeDrawFree ==
    /\ pc = "draw"
    /\ \E p \in sample(space.dimension_lengths) :
        SampleFreeDraw(p) /\ obstacle_free(tree.obs, p)

\* One step of the while True loop.
SampleFreeStep == SampleFreeDrawAny \/ SampleFreeTest

\* ------------------------------------------------------------- specifications
Quiet ==
    /\ pc = "idle"
    /\ x = NoPoint
    /\ earlier_free = FALSE
    /\ ret = NoRet

\* Nothing is constructed yet.
Unbuilt ==
    /\ tree = NoObject
    /\ tree_in = NoObject
    /\ space = NoObject
    /\ space_in = NoObject
    /\ seg = NoSegment
    /\ Quiet

\* The state after construction: an index of some dimension d over no obstacle
\* or over one box, and a space [0, side] x ... x [0, side] of the same
\* dimension wired to it. The planner validates the main diagonal of the grid.
Init ==
    /\ \E d \in 2..MaxDim :
        /\ \E obstacles \in {None, Some(<<>>)} \cup {Some(<<o>>) : o \in Cubes(d)} :
            /\ tree = ObstacleRtree_init(d, obstacles)
            /\ tree_in = [dim |-> d, obstacles |-> obstacles]
        /\ \E side \in 1..MaxCoord :
            /\ space_in = [i \in 1..d |-> <<0, side>>]
            /\ space = SearchSpace_init(space_in, "tree.obstacle_free", "tree.collision_free")
        /\ seg = [start |-> Origin(d), end |-> [i \in 1..d |-> MaxCoord]]
    /\ Quiet

Next ==
    \/ ObstacleFreeCall
    \/ CollisionFreeCall
    \/ SampleCall
    \/ SampleFreeCall
    \/ SampleFreeDrawAny
    \/ SampleFreeTest

Spec == Init /\ [][Next]_vars

\* The planner only draws free samples. sample_free keeps running once
\* entered, and np.random.uniform is fair: in an endless loop over a space
\* that holds free points, a free point is drawn at some iteration.
NextSampleFree ==
    \/ SampleFreeCall
    \/ SampleFreeDrawAny
    \/ SampleFreeTest

FairSpec ==
    /\ Init
    /\ [][NextSampleFree]_vars
    /\ WF_vars(SampleFreeTest)
    /\ SF_vars(SampleFreeDrawFree)

\* The obstacle index alone, from its construction on.
NextIndex ==
    \/ ConstructIndex
    \/ Plan
    \/ ObstacleFreeCall
    \/ CollisionFreeCall

SpecIndex == Unbuilt /\ [][NextIndex]_vars

\* The search space alone, from its construction on.
NextSpace ==
    \/ ConstructSpace
    \/ SampleCall

SpecSpace == Unbuilt /\ [][NextSpace]_vars

\* ------------------------------------------------------------- properties
\* Membership of a grid point in an obstacle box, as the specification words it.
InBox(o, p) ==
    \A i \in 1..Len(p.c) : o[i] * p.d <= p.c[i] /\ p.c[i] <= o[i + Len(p.c)] * p.d
StrictlyInBox(o, p) ==
    \A i \in 1..Len(p.c) : o[i] * p.d < p.c[i] /\ p.c[i] < o[i + Len(p.c)] * p.d

IndexedBoxes == [k \in 1..Len(tree.obs) |-> tree.obs[k].box]
Free(p) == \A k \in 1..Len(tree.obs) : ~InBox(tree.obs[k].box, p)

\* C1: every point sample() returns has exactly as many coordinates as the
\* space has dimensions and lies within [low, high] on every axis.
C1_SampleWithinBounds ==
    (space.status = "ok" /\ ret.op = "sample") =>
        /\ space.dimensions >= 2
        /\ Len(ret.val.c) = space.dimensions
        /\ \A i \in 1..space.dimensions :
            /\ space.dimension_lengths[i][1] < space.dimension_lengths[i][2]
            /\ space.dimension_lengths[i][1] * ret.val.d <= ret.val.c[i]
            /\ ret.val.c[i] <= space.dimension_lengths[i][2] * ret.val.d

\* sample() has returned a point of a space that does not start at the origin.
C1_Witness ==
    /\ space.status = "ok"
    /\ ret.op = "sample"
    /\ \E i \in 1..space.dimensions : space.dimension_lengths[i][1] > 0

\* C2: when sample_free() returns, it returns the point it drew last, the
\* predicate is true of that point, and the predicate was false of every point
\* drawn earlier in the call.
C2_SampleFreeReturnsFirstFree ==
    [][(pc = "test" /\ pc' = "idle") =>
        /\ ret'.op = "sample_free"
        /\ ret'.val = x
        /\ obstacle_free(tree.obs, x)
        /\ ~earlier_free]_vars

\* sample_free() has returned from a space in which some point is blocked.
C2_Witness ==
    /\ ret.op = "sample_free"
    /\ \E p \in sample(space.dimension_lengths) : ~obstacle_free(tree.obs, p)

Sampling == pc \in {"draw", "test"}
AllBlocked ==
    \A p \in sample(space.dimension_lengths) : ~obstacle_free(tree.obs, p)

\* C3: sample_free() has no retry limit: while every point of the space is
\* blocked the call neither returns nor raises and keeps drawing and testing;
\* when some point it can draw is free and the draw is fair, it returns.
C3_SampleFreeUnbounded ==
    /\ [][(Sampling /\ AllBlocked) => Sampling']_vars
    /\ [](Sampling => ENABLED SampleFreeStep)
    /\ (Sampling /\ ~AllBlocked) ~> (pc = "idle" /\ ret.op = "sample_free")

\* sample_free() has rejected a draw in a space that is blocked everywhere.
C3_Witness ==
    /\ pc = "draw"
    /\ x # NoPoint
    /\ AllBlocked

\* C4: obstacle_free(point) is true iff no indexed rectangle contains the point:
\* true for a point in no obstacle box, false for a point strictly inside one,
\* and true for every point when the index was built without obstacles.
C4_ObstacleFreeIffNoBox ==
    (tree.status = "ok" /\ ret.op = "obstacle_free") =>
        /\ ret.val = Free(ret.args[1])
        /\ (\E k \in 1..Len(tree.obs) : StrictlyInBox(tree.obs[k].box, ret.args[1]))
              => (ret.val = FALSE)
        /\ ~tree_in.obstacles.given => (ret.val = TRUE)

\* obstacle_free() has answered for a point on the border of an obstacle.
C4_Witness ==
    /\ tree.status = "ok"
    /\ ret.op = "obstacle_free"
    /\ ret.val = FALSE
    /\ \A k \in 1..Len(tree.obs) : ~StrictlyInBox(tree.obs[k].box, ret.args[1])

\* C5: collision_free(start, end, r) is true iff obstacle_free holds of every
\* point produced for the segment; both end points are produced, so a segment
\* with an end point inside an obstacle is never collision-free.
C5_CollisionFreeIsConjunction ==
    (tree.status = "ok" /\ ret.op = "collision_free") =>
        LET points == es_points_along_line(ret.args[1], ret.args[2], ret.args[3])
        IN /\ ret.val = (\A i \in 1..Len(points) : obstacle_free(tree.obs, points[i]))
           /\ SamePoint(points[1], GridPt(ret.args[1]))
           /\ SamePoint(points[Len(points)], GridPt(ret.args[2]))
           /\ (~Free(GridPt(ret.args[1])) \/ ~Free(GridPt(ret.args[2])))
                 => (ret.val = FALSE)

\* collision_free() has answered for a segment that starts free and ends
\* inside an obstacle.
C5_Witness ==
    /\ tree.status = "ok"
    /\ ret.op = "collision_free"
    /\ Free(GridPt(ret.args[1]))
    /\ ~Free(GridPt(ret.args[2]))

\* C6: collision_free(p, p, r) is equivalent to obstacle_free(p).
C6_DegenerateSegment ==
    (tree.status = "ok" /\ ret.op = "collision_free" /\ ret.args[1] = ret.args[2]) =>
        ret.val = obstacle_free(tree.obs, GridPt(ret.args[1]))

\* collision_free(p, p, r) has answered for a point p inside an obstacle.
C6_Witness ==
    /\ tree.status = "ok"
    /\ ret.op = "collision_free"
    /\ ret.args[1] = ret.args[2]
    /\ ~Free(GridPt(ret.args[1]))

\* Every point produced at resolution r1 is also produced at resolution r2.
Nested(start, end, r1, r2) ==
    LET coarse == es_points_along_line(start, end, r1)
        fine == es_points_along_line(start, end, r2)
    IN \A i \in 1..Len(coarse) : \E j \in 1..Len(fine) : SamePoint(coarse[i], fine[j])

TooFew == Len(space_in) < 2
Malformed == \E i \in 1..Len(space_in) : Len(space_in[i]) # 2
Degenerate ==
    \E i \in 1..Len(space_in) : Len(space_in[i]) >= 2 /\ space_in[i][1] >= space_in[i][2]

SpaceFailed(msg) == space.status = "error" /\ space.err = msg
SpaceBuilt ==
    /\ space.status = "ok"
    /\ space.dimension_lengths = space_in
    /\ space.dimensions = Len(space_in)
    /\ space.obstacle_free = "tree.obstacle_free"
    /\ space.collision_free = "tree.collision_free"

\* C8 (as stated): construction fails with the too-few-dimensions error when
\* fewer than 2 ranges are given, with the malformed-range error when some
\* range is not a pair, with the degenerate-range error when some low >= high;
\* otherwise it succeeds, keeping the ranges verbatim and the two predicates
\* unevaluated.
C8_Construction ==
    (space.status # "none") =>
        /\ TooFew => SpaceFailed(TooFewMsg)
        /\ Malformed => SpaceFailed(MalformedMsg)
        /\ Degenerate => SpaceFailed(DegenerateMsg)
        /\ ~(TooFew \/ Malformed \/ Degenerate) => SpaceBuilt

\* C8 (amended): the three checks run in that order and the first that fails
\* decides the error; when none fails construction succeeds, keeping the
\* ranges verbatim and the two predicates unevaluated.
C8_ConstructionInOrder ==
    (space.status # "none") =>
        /\ TooFew => SpaceFailed(TooFewMsg)
        /\ (~TooFew /\ Malformed) => SpaceFailed(MalformedMsg)
        /\ (~TooFew /\ ~Malformed /\ Degenerate) => SpaceFailed(DegenerateMsg)
        /\ ~(TooFew \/ Malformed \/ Degenerate) => SpaceBuilt

\* Construction was refused for ranges that fail two of the checks at once.
C8_Witness ==
    /\ space.status = "error"
    /\ ~TooFew
    /\ Malformed
    /\ Degenerate

\* What the specification says of the obstacles an index is constructed from.
Obstacles == tree_in.obstacles.list
WrongCount == \E k \in 1..Len(Obstacles) : Len(Obstacles[k]) # 2 * tree_in.dim
LowNotBelowHigh ==
    \E k \in 1..Len(Obstacles) :
        \E i \in 1..(Len(Obstacles[k]) \div 2) :
            Obstacles[k][i] >= Obstacles[k][i + (Len(Obstacles[k]) \div 2)]

TreeFailed(msg) == tree.status = "error" /\ tree.err = msg
TreeBuilt ==
    /\ tree.status = "ok"
    /\ tree.dim = tree_in.dim
    /\ IndexedBoxes = Obstacles
    /\ \A k \in 1..Len(tree.obs) :
        /\ Len(tree.obs[k].box) = 2 * tree.dim
        /\ \A i \in 1..tree.dim : tree.obs[k].box[i] < tree.obs[k].box[i + tree.dim]

\* C9 (as stated): construction from an obstacle list fails with the dimension
\* error when some obstacle has a coordinate count other than 2 x dimension,
\* with the ordering error when some obstacle has low >= high on an axis;
\* otherwise every obstacle is indexed, each with 2 x dimension coordinates and
\* low < high on every axis.
C9_Construction ==
    (tree.status # "none" /\ tree_in.obstacles.given) =>
        /\ WrongCount => TreeFailed(DimensionMsg)
        /\ LowNotBelowHigh => TreeFailed(OrderingMsg)
        /\ ~(WrongCount \/ LowNotBelowHigh) => TreeBuilt

\* C9 (amended): the coordinate counts are checked first, so the ordering
\* error is raised only when every obstacle has 2 x dimension coordinates.
C9_ConstructionInOrder ==
    (tree.status # "none" /\ tree_in.obstacles.given) =>
        /\ WrongCount => TreeFailed(DimensionMsg)
        /\ (~WrongCount /\ LowNotBelowHigh) => TreeFailed(OrderingMsg)
        /\ ~(WrongCount \/ LowNotBelowHigh) => TreeBuilt

\* Construction was refused for a list that fails both checks.
C9_Witness ==
    /\ tree.status = "error"
    /\ tree_in.obstacles.given
    /\ WrongCount
    /\ LowNotBelowHigh

\* C10: whatever has been called, the space still holds the ranges and the
\* index still holds the obstacles they were built from, and obstacle_free and
\* collision_free return what they return on the index as it was built.
C10_ReadOnly ==
    /\ space.status = "ok" => space.dimension_lengths = space_in
    /\ tree.status = "ok" => tree.obs = obstacle_generator(Obstacles)
    /\ (tree.status = "ok" /\ ret.op = "obstacle_free") =>
        ret.val = obstacle_free(obstacle_generator(Obstacles), ret.args[1])
    /\ (tree.status = "ok" /\ ret.op = "collision_free") =>
        ret.val = collision_free(obstacle_generator(Obstacles),
                                 ret.args[1], ret.args[2], ret.args[3])

\* A query has found an obstacle after the space was built over the index.
C10_Witness ==
    /\ space.status = "ok"
    /\ tree.status = "ok"
    /\ ret.op \in {"obstacle_free", "collision_free"}
    /\ ret.val = FALSE

====
